---- MODULE Spec2Model ----
(***************************************************************************)
(* Model of tools/port_gpui_example.py: the GPUI example porter.           *)
(*                                                                         *)
(* Texts are sequences of one-character strings, so that the regular       *)
(* expressions of the analyzer are modelled character by character.  The   *)
(* state machine is one run of main(): every blocking call (network,       *)
(* filesystem) is a step whose outcome is chosen nondeterministically.     *)
(***************************************************************************)
EXTENDS Integers, Sequences, FiniteSets, TLC

VARIABLES argv, pc, name, rust_code, analysis, iter_order, zig_code,
          report_html, outputs, printed, exit_code

vars == <<argv, pc, name, rust_code, analysis, iter_order, zig_code,
          report_html, outputs, printed, exit_code>>

----------------------------------------------------------------------------
(* Characters and character classes of Python's re module (ASCII part).    *)

Digits == {"0","1","2","3","4","5","6","7","8","9"}

LowerAZ == <<"a","b","c","d","e","f","g","h","i","j","k","l","m","n","o","p","q","r","s","t","u","v","w","x","y","z">>

UpperAZ == <<"A","B","C","D","E","F","G","H","I","J","K","L","M","N","O","P","Q","R","S","T","U","V","W","X","Y","Z">>

Range(s) == {s[i] : i \in 1..Len(s)}

Letters == Range(LowerAZ) \cup Range(UpperAZ)

\* [0-9a-fA-F]
HexDigits == Digits \cup {"a","b","c","d","e","f","A","B","C","D","E","F"}

\* \w
WordChars == Letters \cup Digits \cup {"_"}

\* Code-point order of the characters that can occur in a color token:
\* digits < upper-case letters < "_" < lower-case letters, as in ASCII.
AsciiOrder == <<"0","1","2","3","4","5","6","7","8","9","A","B","C","D","E","F","G","H","I","J","K","L","M","N","O","P","Q","R","S","T","U","V","W","X","Y","Z","_","a","b","c","d","e","f","g","h","i","j","k","l","m","n","o","p","q","r","s","t","u","v","w","x","y","z">>

Ord(c) == CHOOSE i \in 1..Len(AsciiOrder) : AsciiOrder[i] = c

IndexIn(c, s) == CHOOSE i \in 1..Len(s) : s[i] = c

\* str.upper() / str.lower() on one character
Upper(c) == IF c \in Range(LowerAZ) THEN UpperAZ[IndexIn(c, LowerAZ)] ELSE c

Lower(c) == IF c \in Range(UpperAZ) THEN LowerAZ[IndexIn(c, UpperAZ)] ELSE c

Min(S) == CHOOSE x \in S : \A y \in S : x <= y

Max(S) == CHOOSE x \in S : \A y \in S : x >= y

\* s[a:b] of Python with 0-based a, b (clipped to the string)
Slice(s, a, b) == SubSeq(s, a + 1, IF b <= Len(s) THEN b ELSE Len(s))

\* the literal lit occurs in s at position i
MatchLit(lit, s, i) ==
    /\ i >= 1
    /\ i + Len(lit) - 1 <= Len(s)
    /\ \A k \in 1..Len(lit) : s[i + k - 1] = lit[k]

RECURSIVE ReplaceFrom(_, _, _, _)
\* str.replace(old, new): left to right, non-overlapping
ReplaceFrom(s, old, new, i) ==
    IF i > Len(s) THEN <<>>
    ELSE IF MatchLit(old, s, i)
         THEN new \o ReplaceFrom(s, old, new, i + Len(old))
         ELSE <<s[i]>> \o ReplaceFrom(s, old, new, i + 1)

Replace(s, old, new) == ReplaceFrom(s, old, new, 1)

RECURSIVE SplitFrom(_, _, _, _)
\* str.split(sep) for a one-character separator
SplitFrom(s, sep, i, cur) ==
    IF i > Len(s) THEN <<cur>>
    ELSE IF s[i] = sep
         THEN <<cur>> \o SplitFrom(s, sep, i + 1, <<>>)
         ELSE SplitFrom(s, sep, i + 1, Append(cur, s[i]))

Split(s, sep) == SplitFrom(s, sep, 1, <<>>)

\* str.title(): a letter is upper-cased after a non-letter, lower-cased after a letter
Title(s) ==
    [i \in 1..Len(s) |->
        IF s[i] \in Letters
        THEN IF i > 1 /\ s[i - 1] \in Letters THEN Lower(s[i]) ELSE Upper(s[i])
        ELSE s[i]]

\* str.capitalize(): first character upper-cased, the rest lower-cased
Capitalize(s) == [i \in 1..Len(s) |-> IF i = 1 THEN Upper(s[i]) ELSE Lower(s[i])]

RECURSIVE Join(_)
\* ''.join(words)
Join(words) == IF words = <<>> THEN <<>> ELSE Head(words) \o Join(Tail(words))

----------------------------------------------------------------------------
(* The pattern catalog.  A detection pattern is a literal, optionally      *)
(* followed by [^)]* and a second literal (the format! rule).              *)

Lit(l) == [pre |-> l, star |-> FALSE, post |-> <<>>]

LitStarLit(l, m) == [pre |-> l, star |-> TRUE, post |-> m]

UNSUPPORTED_FEATURES ==
    << [pattern |-> Lit(<<".","o","n","_","c","l","i","c","k","(">>),
        message |-> "Event handlers need manual implementation"],
       [pattern |-> Lit(<<".","o","n","_","m","o","u","s","e","_">>),
        message |-> "Mouse events need manual implementation"],
       [pattern |-> LitStarLit(<<".","c","h","i","l","d","(">>, <<"f","o","r","m","a","t","!">>),
        message |-> "Format strings: use std.fmt.bufPrint"],
       [pattern |-> Lit(<<"i","m","p","l"," ","R","e","n","d","e","r">>),
        message |-> "Render trait: convert to render function"],
       [pattern |-> Lit(<<"c","x",".","n","e","w","(">>),
        message |-> "Context/state: needs manual conversion"],
       [pattern |-> Lit(<<".","w","h","e","n","(">>),
        message |-> "Conditional rendering: use if/else"],
       [pattern |-> Lit(<<".","m","a","p","(">>),
        message |-> "Iterator mapping: use Zig for loop"],
       [pattern |-> Lit(<<"u","n","i","f","o","r","m","_","l","i","s","t">>),
        message |-> "List virtualization: not yet implemented"],
       [pattern |-> Lit(<<"c","a","n","v","a","s","(">>),
        message |-> "Canvas/custom painting: not yet implemented"],
       [pattern |-> Lit(<<"i","m","g","(">>),
        message |-> "Image loading: not yet implemented"],
       [pattern |-> Lit(<<"s","v","g","(">>),
        message |-> "SVG rendering: not yet implemented"],
       [pattern |-> Lit(<<"A","n","i","m","a","t","i","o","n">>),
        message |-> "Animations: not yet implemented"] >>

\* the pattern p matches s starting exactly at position i
PatternMatchesAt(p, s, i) ==
    /\ MatchLit(p.pre, s, i)
    /\ p.star =>
         \E j \in (i + Len(p.pre))..Len(s) :
            /\ MatchLit(p.post, s, j)
            /\ \A k \in (i + Len(p.pre))..(j - 1) : s[k] # ")"

\* re.match in place of re.search: only the start of the text is tried
ReSearch_AsMatch(p, s) == PatternMatchesAt(p, s, 1)

\* re.search(pattern, text) as a truth value: some start position matches
ReSearch(p, s) == \E i \in 1..Len(s) : PatternMatchesAt(p, s, i)

----------------------------------------------------------------------------
(* analyze_example: the color and window-size expressions.                 *)

\* first position at or after i whose character is not in class (Len(s)+1 if none)
RunEnd(s, i, class) ==
    Min({k \in i..(Len(s) + 1) : k > Len(s) \/ s[k] \notin class})

\* rgb\(0x([0-9a-fA-F]+)\) at position i: the position of the closing
\* parenthesis, or 0 when there is no match at i.  The greedy run of hex
\* digits must be followed by ")": a shorter run is followed by a hex digit.
ColorMatchEnd(s, i) ==
    IF ~MatchLit(<<"r","g","b","(","0","x">>, s, i) THEN 0
    ELSE LET e == RunEnd(s, i + 6, HexDigits)
         IN IF e > i + 6 /\ e <= Len(s) /\ s[e] = ")" THEN e ELSE 0

RECURSIVE FindHexColors_Lowercased(_, _)
\* the tokens normalised to lower case before they are stored
FindHexColors_Lowercased(s, i) ==
    LET starts == {k \in i..Len(s) : ColorMatchEnd(s, k) # 0}
    IN IF starts = {} THEN <<>>
       ELSE LET m == Min(starts)
                e == ColorMatchEnd(s, m)
            IN <<[k \in 1..(e - m - 6) |-> Lower(s[m + 5 + k])]>>
               \o FindHexColors_Lowercased(s, e + 1)

RECURSIVE FindHexColors(_, _)
\* re.finditer(color_pattern): group(1) of each match, left to right,
\* the scan resuming after the end of a match
FindHexColors(s, i) ==
    LET starts == {k \in i..Len(s) : ColorMatchEnd(s, k) # 0}
    IN IF starts = {} THEN <<>>
       ELSE LET m == Min(starts)
                e == ColorMatchEnd(s, m)
            IN <<SubSeq(s, m + 6, e - 1)>> \o FindHexColors(s, e + 1)

\* gpui::(\w+)\(\) at position i: the position of the closing parenthesis,
\* or 0.  The greedy \w+ must be followed by "()": neither "(" nor ")" is a
\* word character, so no shorter run can match.
GpuiMatchEnd(s, i) ==
    IF ~MatchLit(<<"g","p","u","i",":",":">>, s, i) THEN 0
    ELSE LET e == RunEnd(s, i + 6, WordChars)
         IN IF e > i + 6 /\ MatchLit(<<"(",")">>, s, e) THEN e + 1 ELSE 0

RECURSIVE FindGpuiColors(_, _)
\* re.finditer(gpui_colors): group(1) of each match, left to right
FindGpuiColors(s, i) ==
    LET starts == {k \in i..Len(s) : GpuiMatchEnd(s, k) # 0}
    IN IF starts = {} THEN <<>>
       ELSE LET m == Min(starts)
                e == GpuiMatchEnd(s, m)
            IN <<SubSeq(s, m + 6, e - 2)>> \o FindGpuiColors(s, e + 1)

NamedColors == {<<"r","e","d">>, <<"g","r","e","e","n">>, <<"b","l","u","e">>, <<"y","e","l","l","o","w">>, <<"b","l","a","c","k">>, <<"w","h","i","t","e">>}

\* (\d+\.?\d*) starting at position a: the positions just after each text
\* the group can take.  The engine tries them longest first.
NumEnds(s, a) ==
    IF a > Len(s) \/ s[a] \notin Digits THEN {}
    ELSE LET e == RunEnd(s, a, Digits)
         IN ((a + 1)..e) \cup
            (IF e <= Len(s) /\ s[e] = "."
             THEN (e + 1)..RunEnd(s, e + 1, Digits) ELSE {})

\* px\((\d+\.?\d*)\) at position j: the ends of the group that are followed by ")"
SecondArgEnds(s, j) ==
    IF ~MatchLit(<<"p","x","(">>, s, j) THEN {}
    ELSE {e \in NumEnds(s, j + 3) : e <= Len(s) /\ s[e] = ")"}

\* .*?px\((\d+\.?\d*)\) from position e1: the positions where px( can start;
\* "." does not match a newline
TailStarts(s, e1) ==
    {j \in e1..Len(s) :
        /\ SecondArgEnds(s, j) # {}
        /\ \A k \in e1..(j - 1) : s[k] # "\n"}

\* size\(px\((\d+\.?\d*).*?px\((\d+\.?\d*)\) matches at position i
SizeMatchesAt(s, i) ==
    /\ MatchLit(<<"s","i","z","e","(","p","x","(">>, s, i)
    /\ \E e1 \in NumEnds(s, i + 8) : TailStarts(s, e1) # {}

\* re.search: the leftmost position with a match, 0 when there is none
SizeSearch(s) ==
    LET starts == {i \in 1..Len(s) : SizeMatchesAt(s, i)}
    IN IF starts = {} THEN 0 ELSE Min(starts)

\* The groups of the match at i: group 1 is the longest text (greedy) that
\* lets the rest match, the gap the shortest (lazy), group 2 the longest.
SizeGroups(s, i) ==
    LET e1 == Max({e \in NumEnds(s, i + 8) : TailStarts(s, e) # {}})
        j  == Min(TailStarts(s, e1))
        e2 == Max(SecondArgEnds(s, j))
    IN <<SubSeq(s, i + 8, e1 - 1), SubSeq(s, j + 3, e2 - 1)>>

\* decimal digits of 2^1024 - 2^970: the least integer that float() rounds
\* to infinity
INF_DIGITS ==
    <<"1","7","9","7","6","9","3","1","3","4","8","6","2","3","1","5","8","0","7","9","3","7","2","8",
       "9","7","1","4","0","5","3","0","3","4","1","5","0","7","9","9","3","4","1","3","2","7","1","0",
       "0","3","7","8","2","6","9","3","6","1","7","3","7","7","8","9","8","0","4","4","4","9","6","8",
       "2","9","2","7","6","4","7","5","0","9","4","6","6","4","9","0","1","7","9","7","7","5","8","7",
       "2","0","7","0","9","6","3","3","0","2","8","6","4","1","6","6","9","2","8","8","7","9","1","0",
       "9","4","6","5","5","5","5","4","7","8","5","1","9","4","0","4","0","2","6","3","0","6","5","7",
       "4","8","8","6","7","1","5","0","5","8","2","0","6","8","1","9","0","8","9","0","2","0","0","0",
       "7","0","8","3","8","3","6","7","6","2","7","3","8","5","4","8","4","5","8","1","7","7","1","1",
       "5","3","1","7","6","4","4","7","5","7","3","0","2","7","0","0","6","9","8","5","5","5","7","1",
       "3","6","6","9","5","9","6","2","2","8","4","2","9","1","4","8","1","9","8","6","0","8","3","4",
       "9","3","6","4","7","5","2","9","2","7","1","9","0","7","4","1","6","8","4","4","4","3","6","5",
       "5","1","0","7","0","4","3","4","2","7","1","1","5","5","9","6","9","9","5","0","8","0","9","3",
       "0","4","2","8","8","0","1","7","7","9","0","4","1","7","4","4","9","7","7","9","2">>

DigitVal(c) == Ord(c) - 1

\* the digits of tok before the "."
IntPart(tok) == SubSeq(tok, 1, RunEnd(tok, 1, Digits) - 1)

\* ds without its leading zeros (the last digit is kept)
StripZeros(ds) ==
    IF ds = <<>> THEN ds
    ELSE SubSeq(ds, Min({k \in 1..Len(ds) : k = Len(ds) \/ ds[k] # "0"}), Len(ds))

\* a < b for two digit strings of the same length
DigitsLess(a, b) ==
    \E k \in 1..Len(a) :
        /\ DigitVal(a[k]) < DigitVal(b[k])
        /\ \A m \in 1..(k - 1) : a[m] = b[m]

\* float(tok) is infinite
FloatIsInf(tok) ==
    LET ds == StripZeros(IntPart(tok))
    IN \/ Len(ds) > Len(INF_DIGITS)
       \/ Len(ds) = Len(INF_DIGITS) /\ ~DigitsLess(ds, INF_DIGITS)

RECURSIVE DecValue(_, _)
DecValue(ds, acc) ==
    IF ds = <<>> THEN acc ELSE DecValue(Tail(ds), 10 * acc + DigitVal(Head(ds)))

\* int(float(tok)) for a finite float: the integer part (exact below 2^53;
\* the texts of the model keep finite numbers far below that)
IntOfFloat(tok) == DecValue(IntPart(tok), 0)

RECURSIVE WarningsLoop(_, _)
\* for pattern, message in UNSUPPORTED_FEATURES[k:]: if re.search(...): append
WarningsLoop(code, k) ==
    IF k > Len(UNSUPPORTED_FEATURES) THEN <<>>
    ELSE (IF ReSearch(UNSUPPORTED_FEATURES[k].pattern, code)
          THEN <<UNSUPPORTED_FEATURES[k].message>> ELSE <<>>)
         \o WarningsLoop(code, k + 1)

DefaultWindowSize == <<500, 500>>

\* analyze_example(rust_code): the analysis dict, or the exception raised
analyze_example(code) ==
    LET warnings == WarningsLoop(code, 1)
        hex      == Range(FindHexColors(code, 1))
        named    == {c \in Range(FindGpuiColors(code, 1)) : c \in NamedColors}
        at       == SizeSearch(code)
        groups   == SizeGroups(code, at)
    IN IF at # 0 /\ (FloatIsInf(groups[1]) \/ FloatIsInf(groups[2]))
       THEN [exc |-> "OverflowError"]
       ELSE [exc |-> "none",
             warnings |-> warnings,
             colors |-> hex \cup named,
             window_size |-> IF at # 0
                             THEN <<IntOfFloat(groups[1]), IntOfFloat(groups[2])>>
                             ELSE DefaultWindowSize,
             title |-> "ZapUI"]

----------------------------------------------------------------------------
(* generate_zig_skeleton and generate_html_report.  A generated text is    *)
(* modelled by the values substituted into its fixed template.             *)

\* a < b for two strings, as Python compares str: by code point, a proper
\* prefix first
StrLess(a, b) ==
    \/ \E k \in 1..Len(a) :
         /\ k <= Len(b)
         /\ Ord(a[k]) < Ord(b[k])
         /\ \A m \in 1..(k - 1) : a[m] = b[m]
    \/ /\ Len(a) < Len(b)
       /\ \A m \in 1..Len(a) : a[m] = b[m]

RECURSIVE InsertSorted(_, _)
InsertSorted(x, seq) ==
    IF seq = <<>> THEN <<x>>
    ELSE IF StrLess(x, Head(seq)) THEN <<x>> \o seq
    ELSE <<Head(seq)>> \o InsertSorted(x, Tail(seq))

\* the colors iterated in the order of the set, without sorted()
Sorted_Unsorted(seq) == seq

RECURSIVE Sorted(_)
\* sorted(iterable) of distinct strings
Sorted(seq) ==
    IF seq = <<>> THEN <<>> ELSE InsertSorted(Head(seq), Sorted(Tail(seq)))

\* the orders in which iterating a Python set can yield its elements
IterationOrders(S) ==
    {f \in [1..Cardinality(S) -> S] : \A x \in S : \E i \in DOMAIN f : f[i] = x}

\* int(x, 16) succeeds on a string of hex digits, and raises on the empty string
HexParses(x) == x # <<>> /\ \A i \in 1..Len(x) : x[i] \in HexDigits

\* a line "const <token> = [4]f32{ r, g, b, a };" with an optional trailing
\* comment; the channels are kept in thousandths (0.5 is 500)
ConstLine(token, rgba, note) ==
    [kind |-> "const", token |-> token, rgba |-> rgba, text |-> note]

\* a line "// <text>" written for the color token (<<>> when for none)
CommentLine(token, text) ==
    [kind |-> "comment", token |-> token, rgba |-> <<>>, text |-> text]

\* the lines one color appends to color_defs; r, g and b of the hex branch
\* are computed and not used: only the success of int(..., 16) matters
ColorDef(color) ==
    IF color = <<"r","e","d">> THEN <<ConstLine(color, <<1000, 0, 0, 1000>>, <<>>)>>
    ELSE IF color = <<"g","r","e","e","n">>
         THEN <<ConstLine(color, <<0, 500, 0, 1000>>, <<"g","p","u","i",":",":","g","r","e","e","n","(",")">>)>>
    ELSE IF color = <<"b","l","u","e">> THEN <<ConstLine(color, <<0, 0, 1000, 1000>>, <<>>)>>
    ELSE IF color = <<"y","e","l","l","o","w">> THEN <<ConstLine(color, <<1000, 1000, 0, 1000>>, <<>>)>>
    ELSE IF color = <<"b","l","a","c","k">> THEN <<ConstLine(color, <<0, 0, 0, 1000>>, <<>>)>>
    ELSE IF color = <<"w","h","i","t","e">> THEN <<ConstLine(color, <<1000, 1000, 1000, 1000>>, <<>>)>>
    ELSE IF /\ HexParses(Slice(color, 0, 2))
            /\ HexParses(Slice(color, 2, 4))
            /\ HexParses(Slice(color, 4, 6))
         THEN <<CommentLine(color, <<"r","g","b","(","0","x">> \o color \o <<")">>)>>
         ELSE <<>>

RECURSIVE ColorDefs(_)
\* the loop over sorted(analysis['colors'])
ColorDefs(colors) ==
    IF colors = <<>> THEN <<>> ELSE ColorDef(Head(colors)) \o ColorDefs(Tail(colors))

\* lines of the skeleton template apart from the colors section
TemplateLines == 212

\* generate_zig_skeleton(name, rust_code, analysis); order is the order in
\* which the colors set is iterated by sorted()
generate_zig_skeleton(nm, code, an, order) ==
    LET color_defs == ColorDefs(Sorted(order))
        words      == Split(nm, "_")
    IN [title          |-> Title(Replace(nm, <<"_">>, <<" ">>)),
        name           |-> nm,
        class_name     |-> Join([i \in 1..Len(words) |-> Capitalize(words[i])]),
        width          |-> an.window_size[1],
        height         |-> an.window_size[2],
        colors_section |-> IF color_defs # <<>> THEN color_defs
                           ELSE <<CommentLine(<<>>, <<"D","e","f","i","n","e"," ","c","o","l","o","r","s"," ","a","s"," ","n","e","e","d","e","d">>)>>,
        todos          |-> <<"TODO: Add state fields from Rust struct",
                             "TODO: Port the render() implementation">>]

\* len(text.splitlines()) for a text whose only line break is "\n"
LineCount(text) ==
    Cardinality({i \in 1..Len(text) : text[i] = "\n"})
      + (IF text # <<>> /\ text[Len(text)] # "\n" THEN 1 ELSE 0)

\* html.escape(c) for one character
EscapeChar(c) ==
    IF c = "&" THEN <<"&","a","m","p",";">>
    ELSE IF c = "<" THEN <<"&","l","t",";">>
    ELSE IF c = ">" THEN <<"&","g","t",";">>
    ELSE IF c = "\"" THEN <<"&","q","u","o","t",";">>
    ELSE IF c = "'" THEN <<"&","#","x","2","7",";">>
    ELSE <<c>>

\* html.escape(text)
HtmlEscape(text) == Join([i \in 1..Len(text) |-> EscapeChar(text[i])])

\* generate_html_report(name, rust_code, zig_code, analysis); order is the
\* order in which set(analysis['warnings']) is iterated; the skeleton text is
\* embedded (escaped) as a whole
generate_html_report(nm, code, zig, an, order) ==
    [title         |-> Title(Replace(nm, <<"_">>, <<" ">>)),
     name          |-> nm,
     warnings_html |-> IF order # <<>> THEN order
                       ELSE <<"None - straightforward port!">>,
     rust_lines    |-> LineCount(code),
     zig_lines     |-> TemplateLines + Len(zig.colors_section),
     colors        |-> Cardinality(an.colors),
     window_size   |-> an.window_size,
     rust_escaped  |-> HtmlEscape(code),
     zig_code      |-> zig]

----------------------------------------------------------------------------
(* Inputs: command lines and the texts the remote endpoint can return.     *)

\* most fragments a fetched text is made of
MaxFrags == 2

\* digits of the oversized number in HugeText
HugeDigits == 310

Fragments ==
    << <<".","o","n","_","c","l","i","c","k","(">>, <<"o","n","_","c","l","i","c","k","(">>, <<".","o","n","_","m","o","u","s","e","_">>, <<".","c","h","i","l","d","(">>, <<"x",")">>,
       <<"f","o","r","m","a","t","!">>, <<"i","m","p","l"," ","R","e","n","d","e","r">>, <<"c","x",".","n","e","w","(">>, <<".","w","h","e","n","(">>, <<".","m","a","p","(">>,
       <<"u","n","i","f","o","r","m","_","l","i","s","t">>, <<"c","a","n","v","a","s","(">>, <<"i","m","g","(">>, <<"s","v","g","(">>, <<"A","n","i","m","a","t","i","o","n">>,
       <<"r","g","b","(","0","x","3","3","6","6","9","9",")">>, <<"r","g","b","(","0","x","F","F","f",")">>, <<"r","g","b","(","0","x","a","b","0","0","C","D",")">>, <<"r","g","b","(","0","x","A","B","0","0","c","d",")">>,
       <<"g","p","u","i",":",":","r","e","d","(",")">>, <<"g","p","u","i",":",":","g","r","e","e","n","(",")">>, <<"g","p","u","i",":",":","t","e","a","l","(",")">>,
       <<"s","i","z","e","(","p","x","(","3","0","0",".","0",")",","," ","4","0",".","0",")">>, <<"s","i","z","e","(","p","x","(","8","0","0",".","0",")",","," ","p","x","(","6","0","0",".","0",")",")">>,
       <<"s","i","z","e","(","p","x","(","6","4","0",".",")",","," ","p","x","(","4","8","0",")",")">>, <<".","t","e","x","t","_","s","i","z","e","(","p","x","(","1","6",".","0",")",")">>, <<"\n">>,
       <<".","w","(","p","x","(","2","0","0",".","0",")",")">> >>

\* the fragments of a text are taken in catalog order, repetitions allowed
FragChoices(n) ==
    {f \in [1..n -> 1..Len(Fragments)] : \A i \in 1..(n - 1) : f[i] <= f[i + 1]}

TextOf(f) == Join([i \in DOMAIN f |-> Fragments[f[i]]])

\* a size construct whose first number float() turns into infinity
HugeText == <<"s","i","z","e","(","p","x","(">> \o [i \in 1..HugeDigits |-> "9"] \o <<")",","," ","p","x","(","1",")",")">>

Texts == {TextOf(f) : f \in UNION {FragChoices(n) : n \in 0..MaxFrags}} \cup {HugeText}

LIST == <<"-","-","l","i","s","t">>

Names == {<<"h","e","l","l","o","_","w","o","r","l","d">>, <<"a","_","b",".","r","s">>}

Argvs == {<<>>, <<LIST>>} \cup {<<n>> : n \in Names}

NoAnalysis == [exc |-> "unset"]

NoText == [kind |-> "unset"]

----------------------------------------------------------------------------
(* main(): one run of the tool.                                            *)

Init ==
    /\ argv \in Argvs
    /\ pc = "main"
    /\ name = <<>>
    /\ rust_code = <<>>
    /\ analysis = NoAnalysis
    /\ iter_order = <<>>
    /\ zig_code = NoText
    /\ report_html = NoText
    /\ outputs = <<>>
    /\ printed = <<>>
    /\ exit_code = <<>>

\* every way of ending the process reports success
Exit_AlwaysZero(code) == pc' = "exited" /\ exit_code' = <<0>>

\* the process ends with status code (sys.exit, an uncaught exception, or
\* main returning)
Exit(code) == pc' = "exited" /\ exit_code' = <<code>>

\* a file or directory the run has created; complete is FALSE for a file
\* whose write did not finish
Output(what, complete) == [what |-> what, complete |-> complete]

\* lines 541-551: the argument check, the --list dispatch, the name
MainArgs ==
    /\ pc = "main"
    /\ IF Len(argv) < 1
       THEN /\ printed' = Append(printed, "Usage")
            /\ Exit(1)
            /\ UNCHANGED name
       ELSE IF argv[1] = LIST
       THEN /\ pc' = "list"
            /\ UNCHANGED <<printed, exit_code, name>>
       ELSE /\ name' = Replace(argv[1], <<".","r","s">>, <<>>)
            /\ printed' = Append(printed, "Fetching GPUI example")
            /\ pc' = "fetch"
            /\ UNCHANGED exit_code
    /\ UNCHANGED <<argv, rust_code, analysis, iter_order, zig_code, report_html, outputs>>

\* list_examples() and the return of main after it: the request and the
\* decoding of its answer either succeed or raise, and the exception is caught
ListExamples ==
    /\ pc = "list"
    /\ \E ok \in BOOLEAN :
          printed' = Append(printed, IF ok THEN "Available GPUI examples"
                                     ELSE "Error fetching examples")
    /\ Exit(0)
    /\ UNCHANGED <<argv, name, rust_code, analysis, iter_order, zig_code, report_html,
                   outputs>>

\* main goes on with whatever fetch_example returned, without testing it
FetchExample_Unchecked ==
    /\ pc = "fetch"
    /\ \E ok \in BOOLEAN, body \in Texts :
          /\ rust_code' = (IF ok THEN body ELSE <<>>)
          /\ printed' = (IF ok THEN printed ELSE Append(printed, "Error fetching"))
                           \o <<"Analyzing">>
    /\ pc' = "analyze"
    /\ UNCHANGED <<argv, name, analysis, iter_order, zig_code, report_html, outputs,
                   exit_code>>

\* fetch_example(name) and the test of its result in main: the request
\* raises (caught, "" returned) or answers with a body, which may be empty
FetchExample ==
    /\ pc = "fetch"
    /\ \E ok \in BOOLEAN, body \in Texts :
          LET fetched == IF ok THEN body ELSE <<>>
              log     == IF ok THEN printed ELSE Append(printed, "Error fetching")
          IN /\ rust_code' = fetched
             /\ IF fetched = <<>>
                THEN /\ printed' = Append(log, "Could not fetch example")
                     /\ Exit(1)
                ELSE /\ printed' = Append(log, "Analyzing")
                     /\ pc' = "analyze"
                     /\ UNCHANGED exit_code
    /\ UNCHANGED <<argv, name, analysis, iter_order, zig_code, report_html, outputs>>

\* analysis = analyze_example(rust_code) and the printed summary; an
\* exception of the analyzer is not caught anywhere and ends the process
Analyze ==
    /\ pc = "analyze"
    /\ LET a == analyze_example(rust_code)
       IN IF a.exc # "none"
          THEN /\ printed' = Append(printed, "Traceback")
               /\ Exit(1)
               /\ UNCHANGED analysis
          ELSE /\ analysis' = a
               /\ printed' = Append(printed, "Analysis")
                               \o (IF a.warnings # <<>> THEN <<"Warnings">> ELSE <<>>)
               /\ pc' = "generate"
               /\ UNCHANGED exit_code
    /\ UNCHANGED <<argv, name, rust_code, iter_order, zig_code, report_html, outputs>>

\* the skeleton generator empties the colors set it was handed while it
\* emits the color lines
Generate_ConsumesColors ==
    /\ pc = "generate"
    /\ \E order \in IterationOrders(analysis.colors) :
          /\ iter_order' = order
          /\ zig_code' = generate_zig_skeleton(name, rust_code, analysis, order)
    /\ analysis' = [analysis EXCEPT !.colors = {}]
    /\ pc' = "makedirs"
    /\ UNCHANGED <<argv, name, rust_code, report_html, outputs, printed, exit_code>>

\* zig_code = generate_zig_skeleton(name, rust_code, analysis)
Generate ==
    /\ pc = "generate"
    /\ \E order \in IterationOrders(analysis.colors) :
          /\ iter_order' = order
          /\ zig_code' = generate_zig_skeleton(name, rust_code, analysis, order)
    /\ pc' = "makedirs"
    /\ UNCHANGED <<argv, name, rust_code, analysis, report_html, outputs, printed,
                   exit_code>>

\* one os.makedirs(..., exist_ok=True) call: it creates the directory or raises
MakeDir(at, what, next) ==
    /\ pc = at
    /\ \E ok \in BOOLEAN :
          IF ok
          THEN /\ outputs' = Append(outputs, Output(what, TRUE))
               /\ pc' = next
               /\ UNCHANGED <<printed, exit_code>>
          ELSE /\ printed' = Append(printed, "Traceback")
               /\ Exit(1)
               /\ UNCHANGED outputs
    /\ UNCHANGED <<argv, name, rust_code, analysis, iter_order, zig_code, report_html>>

MakeExampleDir == MakeDir("makedirs", "example_dir", "makedirs_screenshots")

MakeScreenshotsDir == MakeDir("makedirs_screenshots", "screenshots", "write_zig")

\* with open(path, 'w') as f: f.write(text): open raises, or the file is
\* created and write raises, or the text is written
WriteFile(at, what, next, log) ==
    /\ pc = at
    /\ \E r \in {"written", "open raises", "write raises"} :
          /\ outputs' = IF r = "open raises" THEN outputs
                        ELSE Append(outputs, Output(what, r = "written"))
          /\ IF r = "written"
             THEN /\ pc' = next
                  /\ printed' = printed \o log
                  /\ UNCHANGED exit_code
             ELSE /\ printed' = (printed \o log) \o <<"Traceback">>
                  /\ Exit(1)
    /\ UNCHANGED <<argv, name, rust_code, analysis, iter_order, zig_code, report_html>>

WriteZig == WriteFile("write_zig", "zig", "write_rs", <<"Generating">>)

WriteRust == WriteFile("write_rs", "rs", "report", <<>>)

\* report_html = generate_html_report(name, rust_code, zig_code, analysis)
GenerateReport ==
    /\ pc = "report"
    /\ \E order \in IterationOrders(Range(analysis.warnings)) :
          report_html' = generate_html_report(name, rust_code, zig_code, analysis, order)
    /\ pc' = "write_report"
    /\ UNCHANGED <<argv, name, rust_code, analysis, iter_order, zig_code, outputs,
                   printed, exit_code>>

WriteReport == WriteFile("write_report", "report", "font", <<>>)

\* the font copy: os.path.exists is false (two lines printed), or
\* shutil.copy copies the file, or shutil.copy raises, with or without a
\* destination file left behind
CopyFont ==
    /\ pc = "font"
    /\ \E r \in {"absent", "copied", "copy raises"}, left \in BOOLEAN :
          /\ outputs' = IF r = "copied" THEN Append(outputs, Output("font", TRUE))
                        ELSE IF r = "copy raises" /\ left
                        THEN Append(outputs, Output("font", FALSE))
                        ELSE outputs
          /\ IF r = "copy raises"
             THEN /\ printed' = Append(printed, "Traceback")
                  /\ Exit(1)
             ELSE /\ printed' = Append(printed, IF r = "copied" THEN "Copied font"
                                                ELSE "Font not found")
                  /\ pc' = "summary"
                  /\ UNCHANGED exit_code
    /\ UNCHANGED <<argv, name, rust_code, analysis, iter_order, zig_code, report_html>>

\* the closing prints and the return of main
Summary ==
    /\ pc = "summary"
    /\ printed' = Append(printed, "Generated example")
    /\ Exit(0)
    /\ UNCHANGED <<argv, name, rust_code, analysis, iter_order, zig_code, report_html,
                   outputs>>

Next ==
    \/ MainArgs
    \/ ListExamples
    \/ FetchExample
    \/ Analyze
    \/ Generate
    \/ MakeExampleDir
    \/ MakeScreenshotsDir
    \/ WriteZig
    \/ WriteRust
    \/ GenerateReport
    \/ WriteReport
    \/ CopyFont
    \/ Summary

Spec == Init /\ [][Next]_vars

----------------------------------------------------------------------------
(* Properties.                                                             *)

Analyzed == analysis # NoAnalysis

Generated == zig_code # NoText

\* the positions of text where lit stands as a substring
Occurrences(lit, text) ==
    {i \in 1..(Len(text) - Len(lit) + 1) : SubSeq(text, i, i + Len(lit) - 1) = lit}

\* the detection pattern of a rule has a match somewhere in text
Detects(rule, text) ==
    LET p == rule.pattern
    IN IF ~p.star THEN Occurrences(p.pre, text) # {}
       ELSE \E i \in Occurrences(p.pre, text), j \in Occurrences(p.post, text) :
               /\ j >= i + Len(p.pre)
               /\ ")" \notin Range(SubSeq(text, i + Len(p.pre), j - 1))

Rules == Range(UNSUPPORTED_FEATURES)

\* C1: the warnings returned by analyze_example are exactly the messages of
\* the rules whose pattern has a match in the text, each of them once.
C1_WarningsExact ==
    Analyzed =>
        /\ Range(analysis.warnings) = {r.message : r \in {q \in Rules : Detects(q, rust_code)}}
        /\ \A i, j \in 1..Len(analysis.warnings) :
              analysis.warnings[i] = analysis.warnings[j] => i = j

\* C1 witness: a rule whose pattern has two matches in the text has fired
C1_Witness ==
    /\ Analyzed
    /\ Len(analysis.warnings) = 1
    /\ \E r \in Rules :
          /\ ~r.pattern.star
          /\ Cardinality(Occurrences(r.pattern.pre, rust_code)) >= 2

\* the end of the longest number (\d+\.?\d*) at position a, 0 when none
NumberEnd(text, a) == IF NumEnds(text, a) = {} THEN 0 ELSE Max(NumEnds(text, a))

\* size(px(N), px(M)) stands at position i: two arguments, each a number
\* wrapped in px(...), separated by a comma and optional spaces
IsSizeConstruct(text, i) ==
    LET e1 == NumberEnd(text, i + 8)
        j  == RunEnd(text, e1 + 2, {" "})
        e2 == NumberEnd(text, j + 3)
    IN /\ MatchLit(<<"s","i","z","e","(","p","x","(">>, text, i)
       /\ e1 # 0
       /\ MatchLit(<<")",",">>, text, e1)
       /\ MatchLit(<<"p","x","(">>, text, j)
       /\ e2 # 0
       /\ MatchLit(<<")",")">>, text, e2)

\* the window size the first size construct of text states, (500, 500) when
\* text has none
FirstConstructSize(text) ==
    LET at == {i \in 1..Len(text) : IsSizeConstruct(text, i)}
    IN IF at = {} THEN <<500, 500>>
       ELSE LET i  == Min(at)
                e1 == NumberEnd(text, i + 8)
                j  == RunEnd(text, e1 + 2, {" "})
                e2 == NumberEnd(text, j + 3)
            IN <<IntOfFloat(SubSeq(text, i + 8, e1 - 1)),
                 IntOfFloat(SubSeq(text, j + 3, e2 - 1))>>

\* C2: window_size is (500, 500) when the text has no two-argument size
\* construct with both arguments in px(...), and otherwise the truncated
\* width and height of the first such construct.
C2_FirstSizeConstruct ==
    Analyzed => analysis.window_size = FirstConstructSize(rust_code)

IsHex(token) == token # <<>> /\ \A i \in 1..Len(token) : token[i] \in HexDigits

LowerStr(token) == [i \in 1..Len(token) |-> Lower(token[i])]

HexVal(c) == IF c \in Digits THEN DigitVal(c) ELSE 9 + IndexIn(Lower(c), LowerAZ)

\* round(int(xy, 16) / 255.0, 3) in thousandths (v * 1000 / 255 is never
\* half-way between two integers, 255 = 5 * 51 with 51 odd)
Channel(x, y) == ((16 * HexVal(x) + HexVal(y)) * 2000 + 255) \div 510

\* C4: for every six-digit hex token of the colors the skeleton has a color
\* constant whose channels are the three two-digit values divided by 255,
\* rounded to 3 decimals, with alpha 1.0.
C4_HexConstantEmitted ==
    Generated =>
        \A c \in analysis.colors :
            (IsHex(c) /\ Len(c) = 6) =>
                \E l \in Range(zig_code.colors_section) :
                    /\ l.kind = "const"
                    /\ l.rgba = <<Channel(c[1], c[2]), Channel(c[3], c[4]),
                                  Channel(c[5], c[6]), 1000>>

\* the annotation texts of a skeleton: its TODO markers
Annotations(zig) == Range(zig.todos)

\* C5: the skeleton has one annotation per message of the warnings, and a
\* single "no warnings" annotation when there is none.
C5_WarningAnnotations ==
    Generated =>
        IF analysis.warnings # <<>>
        THEN \A w \in Range(analysis.warnings) : w \in Annotations(zig_code)
        ELSE "no warnings" \in Annotations(zig_code)

ArgumentMissing == Len(argv) < 1

ListRun == ~ArgumentMissing /\ argv[1] = LIST

RetrievalFailed == "Error fetching" \in Range(printed)

\* C6 as claimed: the exit status is non-zero when the argument is missing or
\* the retrieval failed, and zero in every other run.
C6_ExitCodeAsClaimed ==
    pc = "exited" =>
        exit_code = (IF ArgumentMissing \/ RetrievalFailed THEN <<1>> ELSE <<0>>)

\* C6 amended: the exit status is non-zero when the argument is missing, when
\* the retrieval failed or returned an empty text, or when an exception left
\* main (analysis, directory creation, file write, font copy); it is zero in
\* every other run, the --list runs whose request failed among them.
C6_ExitCode ==
    pc = "exited" =>
        exit_code = (IF \/ ArgumentMissing
                        \/ ~ListRun /\ rust_code = <<>>
                        \/ "Traceback" \in Range(printed)
                     THEN <<1>> ELSE <<0>>)

\* C6 witness: a run ended non-zero on a failed file write, after a
\* successful retrieval
C6_Witness ==
    /\ pc = "exited"
    /\ exit_code = <<1>>
    /\ ~RetrievalFailed
    /\ \E o \in Range(outputs) : ~o.complete

ReachedFontCopy == Output("report", TRUE) \in Range(outputs)

\* C7: a run that reached the font copy ends normally, whatever the outcome
\* of the copy, with the three files written before it in place.
C7_FontCopyNeverAborts ==
    (pc = "exited" /\ ReachedFontCopy) =>
        /\ exit_code = <<0>>
        /\ "Generated example" \in Range(printed)
        /\ {Output("zig", TRUE), Output("rs", TRUE)} \subseteq Range(outputs)

\* C8: analyze_example raises for no source text.
C8_AnalyzeNeverRaises ==
    rust_code # <<>> => analyze_example(rust_code).exc = "none"

\* the token is parsed by the skeleton generator as three hex channels
ParsesAsChannels(c) ==
    /\ HexParses(Slice(c, 0, 2))
    /\ HexParses(Slice(c, 2, 4))
    /\ HexParses(Slice(c, 4, 6))

\* C9: the skeleton has a commented-out placeholder line for exactly the
\* tokens that are neither named nor parseable as three hex channels.
C9_PlaceholderIffUnparseable ==
    Generated =>
        \A c \in analysis.colors \ NamedColors :
            (\E l \in Range(zig_code.colors_section) : l.kind = "comment" /\ l.token = c)
                <=> ~ParsesAsChannels(c)

\* C10: the skeleton is the same for every order in which the colors set is
\* iterated, and whatever the warnings and the source text; its color lines
\* stand in increasing order of their tokens.
C10_SkeletonDeterministic ==
    Generated =>
        /\ \A o \in IterationOrders(analysis.colors) :
              /\ generate_zig_skeleton(name, rust_code, analysis, o) = zig_code
              /\ generate_zig_skeleton(name, <<>>, [analysis EXCEPT !.warnings = <<>>], o)
                   = zig_code
        /\ \A i, j \in 1..Len(zig_code.colors_section) :
              i < j => StrLess(zig_code.colors_section[i].token,
                               zig_code.colors_section[j].token)

\* C10 witness: a skeleton was generated from colors iterated in an order
\* that is not the sorted one
C10_Witness ==
    /\ Generated
    /\ Len(iter_order) >= 2
    /\ \E i \in 1..(Len(iter_order) - 1) : StrLess(iter_order[i + 1], iter_order[i])

Reported == report_html # NoText

\* what the generators were handed: the skeleton and the report are made
\* from the same warnings, colors and window size, and these are the ones
\* the analyzer returned
SameAnalysisSeen ==
    /\ pc = "generate" => analysis = analyze_example(rust_code)
    /\ Generated =>
         zig_code = generate_zig_skeleton(name, rust_code, analysis, iter_order)
    /\ Reported =>
         /\ report_html.zig_code = zig_code
         /\ report_html.window_size = analysis.window_size
         /\ report_html.window_size = <<zig_code.width, zig_code.height>>
         /\ report_html.colors = Cardinality(analysis.colors)
         /\ Range(report_html.warnings_html) =
              (IF analysis.warnings = <<>> THEN {"None - straightforward port!"}
               ELSE Range(analysis.warnings))

\* C11: once analyze_example has returned, no step of main changes the
\* analysis (the generators only read it), so the report generator sees the
\* warnings, colors and window size the skeleton generator saw and the
\* analyzer returned.
C11_AnalysisReadOnly ==
    /\ []SameAnalysisSeen
    /\ [][Analyzed => analysis' = analysis]_vars

\* C11 witness: a report was generated, after the skeleton, from an analysis
\* with a warning, a color and a window size read from the text
C11_Witness ==
    /\ Reported
    /\ analysis.warnings # <<>> \/ analysis.colors # {}
    /\ analysis.window_size # DefaultWindowSize

\* the order in which a run creates its directories and files
OutputOrder == <<"example_dir", "screenshots", "zig", "rs", "report", "font">>

\* the run has fetched a non-empty source text
RetrievalSucceeded == rust_code # <<>> /\ ~RetrievalFailed

\* C12: a run has created no directory and written no file unless its
\* retrieval succeeded with a non-empty text before, a run whose retrieval
\* failed ends with none, and what a run has written so far is, in order,
\* the start of: directories, skeleton, source copy, report, font.
C12_OutputsAfterRetrievalInOrder ==
    /\ outputs # <<>> => RetrievalSucceeded
    /\ (pc = "exited" /\ ~RetrievalSucceeded) => outputs = <<>>
    /\ Len(outputs) <= Len(OutputOrder)
    /\ \A i \in 1..Len(outputs) : outputs[i].what = OutputOrder[i]
    /\ \A i \in 1..(Len(outputs) - 1) : outputs[i].complete

\* C12 witness: a run ended with all six outputs written, the font last
C12_Witness ==
    /\ pc = "exited"
    /\ RetrievalSucceeded
    /\ Len(outputs) = Len(OutputOrder)
    /\ outputs[Len(outputs)] = Output("font", TRUE)

====
